---- MODULE Spec2Model ----
(***************************************************************************)
(* Model of the finance-management backend: the in-memory repository       *)
(* MemStorage (src/server/storage.ts) and the request layer and seed       *)
(* procedure built on it (src/server/routes.ts).                           *)
(*                                                                         *)
(* Conventions.                                                            *)
(*  - A JavaScript Map is a sequence of [key, value] entries in insertion  *)
(*    order; Map.set on a present key replaces the value in place.         *)
(*  - A string is a sequence of one-character strings, so toLowerCase is   *)
(*    computed character by character.                                     *)
(*  - Money is counted in hundredths (84.32 is 8432), so the decimal       *)
(*    arithmetic of the routes is exact here; binary floating point        *)
(*    rounding is not modelled.                                            *)
(*  - A Date is its getTime() value, an integer number of ticks; a month   *)
(*    m covers the ticks MonthLen*m .. MonthLen*m + MonthLen - 1.          *)
(*  - undefined is the record Undefined; a falsy categoryId (undefined or  *)
(*    null) is NoCategory.                                                 *)
(*  - Every MemStorage method is an operator from the store (and the       *)
(*    arguments) to [store, result, threw]: the store after the call, the  *)
(*    value the promise resolves to, and whether it rejected instead.      *)
(***************************************************************************)
EXTENDS Integers, Sequences, FiniteSets, TLC

VARIABLES
    storage,    \* the MemStorage singleton: five maps and five id counters
    lastOp,     \* the last repository call made by a direct client, and its outcome
    phase,      \* "boot" until seedInitialData has run, then "serving"
    session,    \* per client: req.session.userId (NoSession when not logged in)
    pc,         \* per client: where its request handler in flight is suspended
    req,        \* per client: the locals of its request handler in flight
    created     \* per account id: the balance its createAccount call was given

vars == <<storage, lastOp, phase, session, pc, req, created>>

----------------------------------------------------------------------------
(* JavaScript values and library functions *)

Undefined == [undefined |-> TRUE]

NoCategory == 0

Upper == <<"A","B","C","D","E","F","G","H","I","J","K","L","M",
           "N","O","P","Q","R","S","T","U","V","W","X","Y","Z">>

Lower == <<"a","b","c","d","e","f","g","h","i","j","k","l","m",
           "n","o","p","q","r","s","t","u","v","w","x","y","z">>

LowerChar(c) ==
    IF \E i \in 1..Len(Upper) : Upper[i] = c
    THEN Lower[CHOOSE i \in 1..Len(Upper) : Upper[i] = c]
    ELSE c

\* String.prototype.toLowerCase
toLowerCase(s) == [i \in 1..Len(s) |-> LowerChar(s[i])]

\* { ...obj, extra fields }: the fields of extra override those of obj
Spread(obj, extra) == extra @@ obj

\* Map.prototype.get
MapGet(m, k) ==
    IF \E i \in 1..Len(m) : m[i].key = k
    THEN m[CHOOSE i \in 1..Len(m) : m[i].key = k].value
    ELSE Undefined

\* Map.prototype.set
MapSet(m, k, v) ==
    IF \E i \in 1..Len(m) : m[i].key = k
    THEN [i \in 1..Len(m) |-> IF m[i].key = k THEN [key |-> k, value |-> v] ELSE m[i]]
    ELSE Append(m, [key |-> k, value |-> v])

\* Array.from(map.values())
MapValues(m) == [i \in 1..Len(m) |-> m[i].value]

\* a find that yields the last element passing the test, not the first
ArrayFindLast(arr, test) ==
    IF \E i \in 1..Len(arr) : test[i]
    THEN arr[CHOOSE i \in 1..Len(arr) :
                test[i] /\ \A j \in (i+1)..Len(arr) : ~test[j]]
    ELSE Undefined

\* the callback of find / filter applied to each element: test[i] is its
\* result on arr[i]
\* Array.prototype.find
ArrayFind(arr, test) ==
    IF \E i \in 1..Len(arr) : test[i]
    THEN arr[CHOOSE i \in 1..Len(arr) : test[i] /\ \A j \in 1..(i-1) : ~test[j]]
    ELSE Undefined

\* Array.prototype.filter
ArrayFilter(arr, test) ==
    LET kept == SelectSeq([i \in 1..Len(arr) |-> i], LAMBDA i : test[i])
    IN  [j \in 1..Len(kept) |-> arr[kept[j]]]

\* new Date(d).getTime() of a Date d
getTime(d) == d

\* the comparator of the three transaction queries: newest first
byDateDesc(a, b) == getTime(b.date) - getTime(a.date)

\* the insertion step placing x before the elements it ties with
RECURSIVE SortInsertBeforeTies(_, _)
SortInsertBeforeTies(sorted, x) ==
    IF sorted = <<>> THEN <<x>>
    ELSE LET last == sorted[Len(sorted)]
         IN  IF byDateDesc(last, x) < 0
             THEN Append(sorted, x)
             ELSE Append(SortInsertBeforeTies(SubSeq(sorted, 1, Len(sorted) - 1), x), last)

\* One step of a stable insertion: x goes after every element that the
\* comparator does not order after it.
RECURSIVE SortInsert(_, _)
SortInsert(sorted, x) ==
    IF sorted = <<>> THEN <<x>>
    ELSE LET last == sorted[Len(sorted)]
         IN  IF byDateDesc(last, x) <= 0
             THEN Append(sorted, x)
             ELSE Append(SortInsert(SubSeq(sorted, 1, Len(sorted) - 1), x), last)

\* Array.prototype.sort((a, b) => byDateDesc(a, b)): stable (ECMAScript 2019)
RECURSIVE ArraySort(_)
ArraySort(arr) ==
    IF arr = <<>> THEN <<>>
    ELSE SortInsert(ArraySort(SubSeq(arr, 1, Len(arr) - 1)), arr[Len(arr)])

\* Array.prototype.slice(start, end)
ArraySlice(arr, start, end) ==
    LET n    == Len(arr)
        from == IF start < 0 THEN (IF n + start < 0 THEN 0 ELSE n + start)
                ELSE (IF start > n THEN n ELSE start)
        to   == IF end < 0 THEN (IF n + end < 0 THEN 0 ELSE n + end)
                ELSE (IF end > n THEN n ELSE end)
    IN  SubSeq(arr, from + 1, to)

----------------------------------------------------------------------------
(* Time *)

\* ticks in a month
MonthLen == 30

\* the month the process runs in; new Date() is Now throughout
CurrentMonth == 1

\* date-fns startOfMonth / endOfMonth of month m
startOfMonth(m) == MonthLen * m

endOfMonth(m) == MonthLen * m + MonthLen - 1

\* new Date(): day 15 of the current month
Now == startOfMonth(CurrentMonth) + 14

----------------------------------------------------------------------------
(* MemStorage *)

\* new MemStorage()
MemStorage ==
    [users |-> <<>>, accounts |-> <<>>, categories |-> <<>>,
     transactions |-> <<>>, budgets |-> <<>>,
     userIdCounter |-> 1, accountIdCounter |-> 1, categoryIdCounter |-> 1,
     transactionIdCounter |-> 1, budgetIdCounter |-> 1]

\* what an async method yields: it resolves to result, or rejects (threw)
Resolved(st, result) == [store |-> st, result |-> result, threw |-> FALSE]

Rejected(st) == [store |-> st, result |-> Undefined, threw |-> TRUE]

getUser(st, id) == MapGet(st.users, id)

\* a lookup that compares the usernames as they are, letter case included
getUserByUsernameExact(st, username) ==
    LET values == MapValues(st.users)
    IN  ArrayFind(values, [i \in 1..Len(values) |->
            values[i].username = username])

getUserByUsername(st, username) ==
    LET values == MapValues(st.users)
    IN  ArrayFind(values, [i \in 1..Len(values) |->
            toLowerCase(values[i].username) = toLowerCase(username)])

getUserByEmail(st, email) ==
    LET values == MapValues(st.users)
    IN  ArrayFind(values, [i \in 1..Len(values) |->
            toLowerCase(values[i].email) = toLowerCase(email)])

createUser(st, insertUser) ==
    LET id        == st.userIdCounter
        createdAt == Now
        user      == Spread(insertUser, [id |-> id, createdAt |-> createdAt])
    IN  Resolved([st EXCEPT !.userIdCounter = id + 1,
                            !.users = MapSet(st.users, id, user)], user)

getAccount(st, id) == MapGet(st.accounts, id)

getAccountsByUserId(st, userId) ==
    LET values == MapValues(st.accounts)
    IN  ArrayFilter(values, [i \in 1..Len(values) |-> values[i].userId = userId])

\* createAccount reading the counter without advancing it
createAccountNoIncrement(st, insertAccount) ==
    LET id      == st.accountIdCounter
        account == Spread(insertAccount, [id |-> id])
    IN  Resolved([st EXCEPT !.accounts = MapSet(st.accounts, id, account)], account)

createAccount(st, insertAccount) ==
    LET id      == st.accountIdCounter
        account == Spread(insertAccount, [id |-> id])
    IN  Resolved([st EXCEPT !.accountIdCounter = id + 1,
                            !.accounts = MapSet(st.accounts, id, account)], account)

\* updateAccountBalance rebuilding the record from its arguments alone
updateAccountBalanceBare(st, id, balance) ==
    LET account == MapGet(st.accounts, id)
    IN  IF account = Undefined
        THEN Rejected(st)
        ELSE LET updatedAccount == [id |-> id, balance |-> balance]
             IN  Resolved([st EXCEPT !.accounts = MapSet(st.accounts, id, updatedAccount)],
                          updatedAccount)

\* updateAccountBalance without the existence check: an unknown id is inserted
updateAccountBalanceUpsert(st, id, balance) ==
    LET account        == MapGet(st.accounts, id)
        updatedAccount == IF account = Undefined
                          THEN [id |-> id, balance |-> balance]
                          ELSE Spread(account, [balance |-> balance])
    IN  Resolved([st EXCEPT !.accounts = MapSet(st.accounts, id, updatedAccount)],
                 updatedAccount)

updateAccountBalance(st, id, balance) ==
    LET account == MapGet(st.accounts, id)
    IN  IF account = Undefined
        THEN Rejected(st)
        ELSE LET updatedAccount == Spread(account, [balance |-> balance])
             IN  Resolved([st EXCEPT !.accounts = MapSet(st.accounts, id, updatedAccount)],
                          updatedAccount)

getCategory(st, id) == MapGet(st.categories, id)

getCategoriesByUserId(st, userId) ==
    LET values == MapValues(st.categories)
    IN  ArrayFilter(values, [i \in 1..Len(values) |-> values[i].userId = userId])

\* createCategory drawing its id from the account counter
createCategorySharedCounter(st, insertCategory) ==
    LET id       == st.accountIdCounter
        category == Spread(insertCategory, [id |-> id])
    IN  Resolved([st EXCEPT !.accountIdCounter = id + 1,
                            !.categories = MapSet(st.categories, id, category)], category)

createCategory(st, insertCategory) ==
    LET id       == st.categoryIdCounter
        category == Spread(insertCategory, [id |-> id])
    IN  Resolved([st EXCEPT !.categoryIdCounter = id + 1,
                            !.categories = MapSet(st.categories, id, category)], category)

getTransaction(st, id) == MapGet(st.transactions, id)

getTransactionsByUserId(st, userId) ==
    LET values == MapValues(st.transactions)
    IN  ArraySort(ArrayFilter(values, [i \in 1..Len(values) |-> values[i].userId = userId]))

\* getTransactionsByDateRange with the end bound exclusive
getTransactionsByDateRangeOpenEnd(st, userId, startDate, endDate) ==
    LET values == MapValues(st.transactions)
    IN  ArraySort(ArrayFilter(values, [i \in 1..Len(values) |->
            LET transactionDate == getTime(values[i].date)
            IN  /\ values[i].userId = userId
                /\ transactionDate >= startDate
                /\ transactionDate < endDate]))

getTransactionsByDateRange(st, userId, startDate, endDate) ==
    LET values == MapValues(st.transactions)
    IN  ArraySort(ArrayFilter(values, [i \in 1..Len(values) |->
            LET transactionDate == getTime(values[i].date)
            IN  /\ values[i].userId = userId
                /\ transactionDate >= startDate
                /\ transactionDate <= endDate]))

\* getRecentTransactions slicing before it sorts
getRecentTransactionsSliceFirst(st, userId, limit) ==
    LET values == MapValues(st.transactions)
    IN  ArraySort(ArraySlice(
            ArrayFilter(values, [i \in 1..Len(values) |-> values[i].userId = userId]),
            0, limit))

getRecentTransactions(st, userId, limit) ==
    LET values == MapValues(st.transactions)
    IN  ArraySlice(
            ArraySort(ArrayFilter(values, [i \in 1..Len(values) |-> values[i].userId = userId])),
            0, limit)

createTransaction(st, insertTransaction) ==
    LET id          == st.transactionIdCounter
        transaction == Spread(insertTransaction, [id |-> id])
    IN  Resolved([st EXCEPT !.transactionIdCounter = id + 1,
                            !.transactions = MapSet(st.transactions, id, transaction)],
                 transaction)

getBudget(st, id) == MapGet(st.budgets, id)

getBudgetsByUserId(st, userId) ==
    LET values == MapValues(st.budgets)
    IN  ArrayFilter(values, [i \in 1..Len(values) |-> values[i].userId = userId])

createBudget(st, insertBudget) ==
    LET id     == st.budgetIdCounter
        budget == Spread(insertBudget, [id |-> id])
    IN  Resolved([st EXCEPT !.budgetIdCounter = id + 1,
                            !.budgets = MapSet(st.budgets, id, budget)], budget)

----------------------------------------------------------------------------
(* Aggregation: GET /api/budgets/progress/:yearMonth? *)

\* expenseTransactions.forEach(...): the running categorySpent record
RECURSIVE categorySpent(_)
categorySpent(expenseTransactions) ==
    IF expenseTransactions = <<>> THEN <<>>
    ELSE LET n           == Len(expenseTransactions)
             transaction == expenseTransactions[n]
             spent       == categorySpent(SubSeq(expenseTransactions, 1, n - 1))
             c           == transaction.categoryId
             before      == IF c \in DOMAIN spent /\ spent[c] # 0 THEN spent[c] ELSE 0
         IN  IF c = NoCategory
             THEN spent
             ELSE (c :> before + transaction.amount) @@ spent

\* budgets.forEach(...): the running result record
RECURSIVE progressOf(_, _)
progressOf(budgets, spent) ==
    IF budgets = <<>> THEN <<>>
    ELSE LET n      == Len(budgets)
             budget == budgets[n]
             c      == budget.categoryId
             value  == IF c \in DOMAIN spent /\ spent[c] # 0 THEN spent[c] ELSE 0
         IN  (budget.id :> value) @@ progressOf(SubSeq(budgets, 1, n - 1), spent)

\* the handler with everything a plain filter keeps, income included
budgetProgressAllTypes(st, userId, yearMonth) ==
    LET monthStart   == startOfMonth(yearMonth)
        monthEnd     == endOfMonth(yearMonth)
        transactions == getTransactionsByDateRange(st, userId, monthStart, monthEnd)
        budgets      == getBudgetsByUserId(st, userId)
    IN  progressOf(budgets, categorySpent(transactions))

\* the body sent with status 200 for the session's user and the month
\* yearMonth names (here the month's index)
budgetProgress(st, userId, yearMonth) ==
    LET monthStart   == startOfMonth(yearMonth)
        monthEnd     == endOfMonth(yearMonth)
        transactions == getTransactionsByDateRange(st, userId, monthStart, monthEnd)
        budgets      == getBudgetsByUserId(st, userId)
        expenseTransactions ==
            ArrayFilter(transactions,
                        [i \in 1..Len(transactions) |-> transactions[i].type = "expense"])
    IN  progressOf(budgets, categorySpent(expenseTransactions))

----------------------------------------------------------------------------
(* Aggregation: GET /api/summary *)

(* A JavaScript number that a division produced: the exact quotient        *)
(* [num, den] in lowest terms with den > 0, or Infinity, -Infinity or NaN   *)
(* when the divisor is 0.                                                   *)

NaN == [nan |-> TRUE]

Infinity(sign) == [infinity |-> sign]

Abs(n) == IF n < 0 THEN 0 - n ELSE n

RECURSIVE Gcd(_, _)
Gcd(a, b) == IF b = 0 THEN a ELSE Gcd(b, a % b)

Sign(n) == IF n < 0 THEN 0 - 1 ELSE 1

\* the number a / b of integers a, b
Divide(a, b) ==
    IF b = 0
    THEN (IF a = 0 THEN NaN ELSE Infinity(Sign(a)))
    ELSE LET g == Gcd(Abs(a), Abs(b))
         IN  [num |-> (Sign(b) * a) \div g, den |-> Abs(b) \div g]

\* the number x * k of a number x and an integer k > 0
Times(x, k) ==
    IF "num" \in DOMAIN x THEN Divide(x.num * k, x.den) ELSE x

\* the literal 0
Zero == [num |-> 0, den |-> 1]

\* date-fns subMonths(new Date(), n), as the index of its month
subMonths(month, n) == month - n

\* transactions.filter(t => t.type === type).reduce((sum, t) => sum + Number(t.amount), 0)
RECURSIVE sumOfType(_, _)
sumOfType(transactions, type) ==
    IF transactions = <<>> THEN 0
    ELSE LET n == Len(transactions)
             t == transactions[n]
         IN  sumOfType(SubSeq(transactions, 1, n - 1), type)
                 + (IF t.type = type THEN t.amount ELSE 0)

\* accounts.reduce((sum, account) => sum + Number(account.balance), 0)
RECURSIVE sumOfBalances(_)
sumOfBalances(accounts) ==
    IF accounts = <<>> THEN 0
    ELSE sumOfBalances(SubSeq(accounts, 1, Len(accounts) - 1))
             + accounts[Len(accounts)].balance

\* the percent change without the guard on a zero previous value
percentChangeUnguarded(current, prev) == Times(Divide(current - prev, prev), 100)

\* prev === 0 ? 0 : ((current - prev) / prev) * 100
percentChange(current, prev) ==
    IF prev = 0 THEN Zero ELSE Times(Divide(current - prev, prev), 100)

\* the figures of the body sent with status 200 for the session's user,
\* with the previous-month figures they are computed from
summary(st, userId) ==
    LET currentMonthTransactions ==
            getTransactionsByDateRange(st, userId, startOfMonth(CurrentMonth),
                                       endOfMonth(CurrentMonth))
        prevMonthTransactions ==
            getTransactionsByDateRange(st, userId,
                                       startOfMonth(subMonths(CurrentMonth, 1)),
                                       endOfMonth(subMonths(CurrentMonth, 1)))
        currentIncome   == sumOfType(currentMonthTransactions, "income")
        currentExpenses == sumOfType(currentMonthTransactions, "expense")
        currentSavings  == currentIncome - currentExpenses
        prevIncome      == sumOfType(prevMonthTransactions, "income")
        prevExpenses    == sumOfType(prevMonthTransactions, "expense")
        prevSavings     == prevIncome - prevExpenses
    IN  [totalBalance    |-> sumOfBalances(getAccountsByUserId(st, userId)),
         monthlyIncome   |-> currentIncome,
         incomeChange    |-> percentChange(currentIncome, prevIncome),
         monthlyExpenses |-> currentExpenses,
         expensesChange  |-> percentChange(currentExpenses, prevExpenses),
         monthlySavings  |-> currentSavings,
         savingsChange   |-> percentChange(currentSavings, prevSavings),
         prevIncome      |-> prevIncome,
         prevExpenses    |-> prevExpenses,
         prevSavings     |-> prevSavings]

----------------------------------------------------------------------------
(* State *)

\* the HTTP clients with a session of their own
Clients == {1, 2}

\* req.session.userId of a client that has not logged in
NoSession == 0

NoRequest == [handler |-> "none"]

NoOp == [op |-> "constructor", arg |-> Undefined, result |-> Undefined, threw |-> FALSE]

Init ==
    /\ storage = MemStorage
    /\ lastOp = NoOp
    /\ phase = "boot"
    /\ session = [c \in Clients |-> NoSession]
    /\ pc = [c \in Clients |-> "idle"]
    /\ req = [c \in Clients |-> NoRequest]
    /\ created = <<>>

AppVars == <<phase, session, pc, req, created>>

\* the number of records in the store
Size(st) ==
    Len(st.users) + Len(st.accounts) + Len(st.categories)
        + Len(st.transactions) + Len(st.budgets)

----------------------------------------------------------------------------
(* The repository driven directly: any client of the IStorage interface,   *)
(* one call at a time, with any well-formed arguments.                     *)

\* the most records the direct clients create
MaxRecords == 4

demo == <<"d","e","m","o">>

demoEmail == <<"d","e","m","o","@","e","x","a","m","p","l","e",".","c","o","m">>

InsertUsers ==
    { [username |-> demo, password |-> "password", email |-> demoEmail,
       name |-> "Demo User"],
      [username |-> <<"D","e","m","o">>, password |-> "secret",
       email |-> <<"D","E","M","O","@","e","x","a","m","p","l","e",".","c","o","m">>,
       name |-> "Demo Two"],
      [username |-> <<"A","m","y">>, password |-> "secret",
       email |-> <<"A","m","y","@","X",".","i","o">>, name |-> "Amy"] }

InsertAccounts ==
    { [userId |-> 1, name |-> "Checking Account", type |-> "checking",
       balance |-> 500000, isConnected |-> FALSE],
      [userId |-> 2, name |-> "Savings Account", type |-> "savings",
       balance |-> 0, isConnected |-> FALSE] }

InsertCategories ==
    { [userId |-> 1, name |-> "Food & Dining", type |-> "expense",
       color |-> "#3498DB", icon |-> "shopping-cart"] }

InsertBudgets ==
    { [userId |-> u, categoryId |-> c, amount |-> 20000, period |-> "monthly",
       startDate |-> Now, endDate |-> Now + MonthLen]
        : u \in {1}, c \in {1, 2} }
    \cup
    { [userId |-> 2, categoryId |-> 1, amount |-> 20000, period |-> "monthly",
       startDate |-> Now, endDate |-> Now + MonthLen] }

Txn(u, a, c, amt, d, ty) ==
    [userId |-> u, accountId |-> a, categoryId |-> c, amount |-> amt,
     description |-> "purchase", date |-> d, type |-> ty, paymentMethod |-> "Debit Card"]

InsertTransactions ==
    { Txn(1, 1, 1, 5000, startOfMonth(CurrentMonth), "expense"),
      Txn(2, 2, NoCategory, 3000, endOfMonth(CurrentMonth), "income") }

AccountIds == 1..3

Balances == {0, 10000}

Called(op, arg, r) == [op |-> op, arg |-> arg, result |-> r.result, threw |-> r.threw]

CallCreateUser ==
    \E d \in InsertUsers :
        LET r == createUser(storage, d)
        IN  /\ Size(storage) < MaxRecords
            /\ storage' = r.store
            /\ lastOp' = Called("createUser", d, r)
            /\ UNCHANGED AppVars

CallCreateAccount ==
    \E d \in InsertAccounts :
        LET r == createAccount(storage, d)
        IN  /\ Size(storage) < MaxRecords
            /\ storage' = r.store
            /\ lastOp' = Called("createAccount", d, r)
            /\ UNCHANGED AppVars

CallCreateCategory ==
    \E d \in InsertCategories :
        LET r == createCategory(storage, d)
        IN  /\ Size(storage) < MaxRecords
            /\ storage' = r.store
            /\ lastOp' = Called("createCategory", d, r)
            /\ UNCHANGED AppVars

CallCreateTransaction ==
    \E d \in InsertTransactions :
        LET r == createTransaction(storage, d)
        IN  /\ Size(storage) < MaxRecords
            /\ storage' = r.store
            /\ lastOp' = Called("createTransaction", d, r)
            /\ UNCHANGED AppVars

CallCreateBudget ==
    \E d \in InsertBudgets :
        LET r == createBudget(storage, d)
        IN  /\ Size(storage) < MaxRecords
            /\ storage' = r.store
            /\ lastOp' = Called("createBudget", d, r)
            /\ UNCHANGED AppVars

CallUpdateAccountBalance ==
    \E id \in AccountIds, balance \in Balances :
        LET r == updateAccountBalance(storage, id, balance)
        IN  /\ storage' = r.store
            /\ lastOp' = Called("updateAccountBalance", [id |-> id, balance |-> balance], r)
            /\ UNCHANGED AppVars

StorageNext ==
    \/ CallCreateUser
    \/ CallCreateAccount
    \/ CallCreateCategory
    \/ CallCreateTransaction
    \/ CallCreateBudget
    \/ CallUpdateAccountBalance

StorageSpec == Init /\ [][StorageNext]_vars

\* The repository under createUser calls alone: the calls that decide what
\* getUserByUsername and getUserByEmail read.
UsersNext == CallCreateUser

UsersSpec == Init /\ [][UsersNext]_vars

----------------------------------------------------------------------------
(* The transaction ledger: createTransaction and createBudget driven with   *)
(* transactions that differ in owner, category, type, amount and date, for  *)
(* the queries and the aggregates computed from them.                       *)

\* the most transactions and budgets the ledger holds
MaxLedger == 4

LedgerTransactions ==
    { Txn(1, 1, 1, 5000, startOfMonth(CurrentMonth), "expense"),
      Txn(1, 1, 1, 3000, endOfMonth(CurrentMonth), "expense"),
      Txn(1, 1, 1, 3000, endOfMonth(CurrentMonth) + 1, "expense"),
      Txn(1, 1, 1, 5000, startOfMonth(CurrentMonth), "income"),
      Txn(1, 1, NoCategory, 5000, endOfMonth(CurrentMonth), "expense"),
      Txn(2, 2, 1, 3000, startOfMonth(CurrentMonth), "expense"),
      Txn(1, 1, 2, 3000, startOfMonth(CurrentMonth) - 1, "expense"),
      Txn(1, 1, 2, 5000, Now, "expense") }

LedgerCreateTransaction ==
    \E d \in LedgerTransactions :
        LET r == createTransaction(storage, d)
        IN  /\ Size(storage) < MaxLedger
            /\ storage' = r.store
            /\ lastOp' = Called("createTransaction", d, r)
            /\ UNCHANGED AppVars

LedgerCreateBudget ==
    \E d \in InsertBudgets :
        LET r == createBudget(storage, d)
        IN  /\ Size(storage) < MaxLedger
            /\ storage' = r.store
            /\ lastOp' = Called("createBudget", d, r)
            /\ UNCHANGED AppVars

LedgerNext ==
    \/ LedgerCreateTransaction
    \/ LedgerCreateBudget

LedgerSpec == Init /\ [][LedgerNext]_vars

----------------------------------------------------------------------------
(* The application: seedInitialData at start-up, then the request handlers  *)
(* of registerRoutes. A handler runs from one await to the next as one      *)
(* step; the repository call of an await expression runs in the step that   *)
(* reaches it, and the handlers of different clients interleave between     *)
(* steps. The HTTP response is not part of the state: the status a branch   *)
(* sends is named in a comment beside it.                                   *)

\* day n of the current month, as new Date(year, month, n)
DayOfMonth(n) == startOfMonth(CurrentMonth) + (n - 1)

seedInitialData(st) ==
    IF getUserByUsername(st, demo) # Undefined
    THEN [store |-> st, ran |-> FALSE, checkingAccount |-> Undefined,
          savingsAccount |-> Undefined]
    ELSE
    LET user == createUser(st,
            [username |-> demo, password |-> "password", email |-> demoEmail,
             name |-> "Demo User"])
        uid == user.result.id
        checkingAccount == createAccount(user.store,
            [userId |-> uid, name |-> "Checking Account", type |-> "checking",
             balance |-> 500000, isConnected |-> FALSE])
        savingsAccount == createAccount(checkingAccount.store,
            [userId |-> uid, name |-> "Savings Account", type |-> "savings",
             balance |-> 325400, isConnected |-> FALSE])
        housingCategory == createCategory(savingsAccount.store,
            [userId |-> uid, name |-> "Housing", type |-> "expense",
             color |-> "#2ECC71", icon |-> "home"])
        foodCategory == createCategory(housingCategory.store,
            [userId |-> uid, name |-> "Food & Dining", type |-> "expense",
             color |-> "#3498DB", icon |-> "shopping-cart"])
        transportationCategory == createCategory(foodCategory.store,
            [userId |-> uid, name |-> "Transportation", type |-> "expense",
             color |-> "#E74C3C", icon |-> "car"])
        entertainmentCategory == createCategory(transportationCategory.store,
            [userId |-> uid, name |-> "Entertainment", type |-> "expense",
             color |-> "#9B59B6", icon |-> "film"])
        incomeCategory == createCategory(entertainmentCategory.store,
            [userId |-> uid, name |-> "Income", type |-> "income",
             color |-> "#2ECC71", icon |-> "dollar-sign"])
        Budget(c, amt) ==
            [userId |-> uid, categoryId |-> c, amount |-> amt, period |-> "monthly",
             startDate |-> Now, endDate |-> Now + MonthLen]
        b1 == createBudget(incomeCategory.store, Budget(housingCategory.result.id, 150000))
        b2 == createBudget(b1.store, Budget(foodCategory.result.id, 80000))
        b3 == createBudget(b2.store, Budget(transportationCategory.result.id, 30000))
        b4 == createBudget(b3.store, Budget(entertainmentCategory.result.id, 30000))
        Entry(c, amt, desc, day, ty, method) ==
            [userId |-> uid, accountId |-> checkingAccount.result.id, categoryId |-> c,
             amount |-> amt, description |-> desc, date |-> DayOfMonth(day), type |-> ty,
             paymentMethod |-> method]
        t1 == createTransaction(b4.store,
            Entry(incomeCategory.result.id, 262000, "Paycheck", 15, "income",
                  "Direct Deposit"))
        t2 == createTransaction(t1.store,
            Entry(housingCategory.result.id, 145000, "Rent Payment", 20, "expense",
                  "Bank Transfer"))
        t3 == createTransaction(t2.store,
            Entry(foodCategory.result.id, 8432, "Whole Foods Market", 24, "expense",
                  "Debit Card"))
        t4 == createTransaction(t3.store,
            Entry(transportationCategory.result.id, 4567, "Shell Gas Station", 12,
                  "expense", "Credit Card"))
        t5 == createTransaction(t4.store,
            Entry(entertainmentCategory.result.id, 1499, "Netflix Subscription", 10,
                  "expense", "Credit Card"))
        updated == updateAccountBalance(t5.store, checkingAccount.result.id,
                                        262000 - 145000 - 8432 - 4567 - 1499)
    IN  [store |-> updated.store, ran |-> TRUE,
         checkingAccount |-> checkingAccount.result,
         savingsAccount |-> savingsAccount.result]

\* the number of records the seed leaves in an empty store
SeedSize == Size(seedInitialData(MemStorage).store)

\* the most records the request handlers add to the seeded store
MaxPosts == 2

\* await seedInitialData() in registerRoutes, before any route exists
Boot ==
    LET seeded == seedInitialData(storage)
    IN  /\ phase = "boot"
        /\ phase' = "serving"
        /\ storage' = seeded.store
        /\ created' = IF seeded.ran
                       THEN (seeded.checkingAccount.id :> seeded.checkingAccount.balance)
                            @@ (seeded.savingsAccount.id :> seeded.savingsAccount.balance)
                            @@ created
                       ELSE created
        /\ UNCHANGED <<lastOp, session, pc, req>>

Idle(c) == phase = "serving" /\ pc[c] = "idle"

Finish(c) ==
    /\ pc' = [pc EXCEPT ![c] = "idle"]
    /\ req' = [req EXCEPT ![c] = NoRequest]

Suspend(c, at, locals) ==
    /\ pc' = [pc EXCEPT ![c] = at]
    /\ req' = [req EXCEPT ![c] = locals]

RegisterBodies ==
    { [username |-> <<"A","m","y">>, password |-> "secret",
       email |-> <<"A","m","y","@","X",".","i","o">>, name |-> "Amy"],
      [username |-> <<"a","m","y">>, password |-> "secret",
       email |-> <<"a","m","y","@","x",".","i","o">>, name |-> "amy"],
      [username |-> <<"D","e","m","o">>, password |-> "secret",
       email |-> <<"b","o","b","@","x",".","i","o">>, name |-> "Bob"],
      [username |-> <<"b","o","b">>, password |-> "secret",
       email |-> <<"D","E","M","O","@","e","x","a","m","p","l","e",".","c","o","m">>,
       name |-> "Bob"] }

\* POST /api/auth/register up to the await of getUserByUsername
RegisterLookupUsername(c) ==
    \E body \in RegisterBodies :
        /\ Idle(c)
        /\ Size(storage) < SeedSize + MaxPosts
        /\ Suspend(c, "register.existingUser",
                   [handler |-> "register", validatedData |-> body,
                    existingUser |-> getUserByUsername(storage, body.username)])
        /\ UNCHANGED <<storage, lastOp, phase, session, created>>

\* ... from there to the await of getUserByEmail
RegisterLookupEmail(c) ==
    /\ pc[c] = "register.existingUser"
    /\ IF req[c].existingUser # Undefined
       THEN Finish(c)      \* 400 "Username already taken"
       ELSE Suspend(c, "register.existingEmail",
                    [req[c] EXCEPT !.existingUser =
                        getUserByEmail(storage, req[c].validatedData.email)])
    /\ UNCHANGED <<storage, lastOp, phase, session, created>>

\* ... and from there through createUser to the response
RegisterCreateUser(c) ==
    /\ pc[c] = "register.existingEmail"
    /\ IF req[c].existingUser # Undefined
       THEN UNCHANGED storage      \* 400 "Email already in use"
       ELSE storage' = createUser(storage, req[c].validatedData).store      \* 201
    /\ Finish(c)
    /\ UNCHANGED <<lastOp, phase, session, created>>

LoginBodies ==
    { [username |-> demo, password |-> "password"],
      [username |-> <<"A","M","Y">>, password |-> "secret"],
      [username |-> demo, password |-> "secret"] }

\* POST /api/auth/login; user records never change, so the check after the
\* await sees the user the lookup saw
Login(c) ==
    \E body \in LoginBodies :
        LET user == getUserByUsername(storage, body.username)
        IN  /\ Idle(c)
            /\ IF user = Undefined \/ user.password # body.password
               THEN UNCHANGED session      \* 401 "Invalid credentials"
               ELSE session' = [session EXCEPT ![c] = user.id]      \* 200
            /\ UNCHANGED <<storage, lastOp, phase, pc, req, created>>

\* POST /api/auth/logout
Logout(c) ==
    /\ Idle(c)
    /\ session[c] # NoSession
    /\ session' = [session EXCEPT ![c] = NoSession]
    /\ UNCHANGED <<storage, lastOp, phase, pc, req, created>>

\* isAuthenticated: a request without a session gets 401 and no handler runs
Authenticated(c) == Idle(c) /\ session[c] # NoSession

AccountBodies ==
    { [userId |-> 1, name |-> "Wallet", type |-> "cash", balance |-> 2000,
       isConnected |-> FALSE] }

\* POST /api/accounts
PostAccount(c) ==
    \E body \in AccountBodies :
        LET validatedData == Spread(body, [userId |-> session[c]])
            r == createAccount(storage, validatedData)
        IN  /\ Authenticated(c)
            /\ Size(storage) < SeedSize + MaxPosts
            /\ storage' = r.store
            /\ created' = (r.result.id :> validatedData.balance) @@ created
            /\ UNCHANGED <<lastOp, phase, session, pc, req>>

CategoryBodies ==
    { [userId |-> 1, name |-> "Travel", type |-> "expense", color |-> "#F1C40F",
       icon |-> "plane"] }

\* POST /api/categories
PostCategory(c) ==
    \E body \in CategoryBodies :
        LET validatedData == Spread(body, [userId |-> session[c]])
        IN  /\ Authenticated(c)
            /\ Size(storage) < SeedSize + MaxPosts
            /\ storage' = createCategory(storage, validatedData).store
            /\ UNCHANGED <<lastOp, phase, session, pc, req, created>>

BudgetBodies ==
    { [userId |-> 1, categoryId |-> 5, amount |-> 10000, period |-> "monthly",
       startDate |-> Now, endDate |-> Now + MonthLen] }

\* POST /api/budgets
PostBudget(c) ==
    \E body \in BudgetBodies :
        LET validatedData == Spread(body, [userId |-> session[c]])
        IN  /\ Authenticated(c)
            /\ Size(storage) < SeedSize + MaxPosts
            /\ storage' = createBudget(storage, validatedData).store
            /\ UNCHANGED <<lastOp, phase, session, pc, req, created>>

TransactionBodies ==
    { Txn(1, 1, 5, 10000, Now, "income"),
      Txn(1, 1, 2, 2500, Now, "expense"),
      Txn(1, 9, NoCategory, 2500, Now, "expense") }

\* POST /api/transactions up to the await of createTransaction
PostTransactionCreate(c) ==
    \E body \in TransactionBodies :
        LET validatedData == Spread(body, [userId |-> session[c]])
            r == createTransaction(storage, validatedData)
        IN  /\ Authenticated(c)
            /\ Size(storage) < SeedSize + MaxPosts
            /\ storage' = r.store
            /\ Suspend(c, "transaction.created",
                       [handler |-> "transaction", validatedData |-> validatedData,
                        account |-> Undefined])
            /\ UNCHANGED <<lastOp, phase, session, created>>

\* ... from there to the await of getAccount
PostTransactionGetAccount(c) ==
    /\ pc[c] = "transaction.created"
    /\ Suspend(c, "transaction.account",
               [req[c] EXCEPT !.account = getAccount(storage, req[c].validatedData.accountId)])
    /\ UNCHANGED <<storage, lastOp, phase, session, created>>

\* ... and from there through updateAccountBalance to the response
PostTransactionUpdateBalance(c) ==
    LET accountId  == req[c].validatedData.accountId
        amount     == req[c].validatedData.amount
        account    == req[c].account
        newBalance == IF req[c].validatedData.type = "income"
                      THEN account.balance + amount
                      ELSE account.balance - amount
        r          == updateAccountBalance(storage, accountId, newBalance)
    IN  /\ pc[c] = "transaction.account"
        /\ IF account # Undefined
           THEN storage' = r.store      \* 201, or 500 when the update rejected
           ELSE UNCHANGED storage       \* 201
        /\ Finish(c)
        /\ UNCHANGED <<lastOp, phase, session, created>>

Next ==
    \/ Boot
    \/ \E c \in Clients :
          \/ RegisterLookupUsername(c)
          \/ RegisterLookupEmail(c)
          \/ RegisterCreateUser(c)
          \/ Login(c)
          \/ Logout(c)
          \/ PostAccount(c)
          \/ PostCategory(c)
          \/ PostBudget(c)
          \/ PostTransactionCreate(c)
          \/ PostTransactionGetAccount(c)
          \/ PostTransactionUpdateBalance(c)

Spec == Init /\ [][Next]_vars

----------------------------------------------------------------------------
(* Properties of the repository *)

Kinds == {"users", "accounts", "categories", "transactions", "budgets"}

KindOf(op) ==
    CASE op = "createUser" -> "users"
      [] op = "createAccount" -> "accounts"
      [] op = "createCategory" -> "categories"
      [] op = "createTransaction" -> "transactions"
      [] op = "createBudget" -> "budgets"
      [] OTHER -> "none"

CounterOf(st, kind) ==
    CASE kind = "users" -> st.userIdCounter
      [] kind = "accounts" -> st.accountIdCounter
      [] kind = "categories" -> st.categoryIdCounter
      [] kind = "transactions" -> st.transactionIdCounter
      [] kind = "budgets" -> st.budgetIdCounter

\* C1: for each entity kind the k-th record created has key and id k (the
\* ids handed out are 1..N in call order, none twice), the kind's counter is
\* one more than the number of its creates whatever was created of the other
\* kinds, and the record a create call returns carries the next id of its
\* own kind.
C1_IdsSequential ==
    /\ \A kind \in Kinds :
          /\ CounterOf(storage, kind) = Len(storage[kind]) + 1
          /\ \A i \in 1..Len(storage[kind]) :
                /\ storage[kind][i].key = i
                /\ storage[kind][i].value.id = i
    /\ KindOf(lastOp.op) \in Kinds =>
          /\ ~lastOp.threw
          /\ lastOp.result.id = Len(storage[KindOf(lastOp.op)])

\* creates of three kinds have interleaved, and the second user got id 2
C1_Witness ==
    /\ lastOp.op = "createUser"
    /\ lastOp.result.id = 2
    /\ Len(storage.accounts) = 1
    /\ Len(storage.transactions) = 1

StoredValues(st, kind) == { st[kind][i].value : i \in 1..Len(st[kind]) }

SameButBalance(a, b) ==
    /\ DOMAIN a = DOMAIN b
    /\ \A f \in DOMAIN a \ {"balance"} : a[f] = b[f]

\* C2: a record returned by create is what get returns for its id (the data
\* given, plus the id, plus createdAt for a user), and every step keeps every
\* stored record under its key with all its fields; only the balance of an
\* account may change, and only in a step that calls updateAccountBalance on
\* that account's id.
C2_RecordsPersist ==
    [][ /\ KindOf(lastOp'.op) \in Kinds =>
              /\ MapGet(storage'[KindOf(lastOp'.op)], lastOp'.result.id) = lastOp'.result
              /\ \A f \in DOMAIN lastOp'.arg : lastOp'.result[f] = lastOp'.arg[f]
              /\ DOMAIN lastOp'.result =
                    DOMAIN lastOp'.arg \cup
                        (IF lastOp'.op = "createUser" THEN {"id", "createdAt"} ELSE {"id"})
        /\ \A kind \in Kinds \ {"accounts"} :
              \A i \in 1..Len(storage[kind]) :
                  /\ Len(storage'[kind]) >= i
                  /\ storage'[kind][i] = storage[kind][i]
        /\ \A i \in 1..Len(storage.accounts) :
              /\ Len(storage'.accounts) >= i
              /\ storage'.accounts[i].key = storage.accounts[i].key
              /\ SameButBalance(storage'.accounts[i].value, storage.accounts[i].value)
              /\ storage'.accounts[i].value.balance # storage.accounts[i].value.balance =>
                    /\ lastOp'.op = "updateAccountBalance"
                    /\ lastOp'.arg.id = storage.accounts[i].key
      ]_vars

\* a balance update has just succeeded next to records created before it
C2_Witness ==
    /\ lastOp.op = "updateAccountBalance"
    /\ ~lastOp.threw
    /\ lastOp.result.balance = 10000
    /\ Len(storage.accounts) = 2
    /\ Len(storage.users) = 1
    /\ Len(storage.transactions) = 1

\* C3: a successful updateAccountBalance(id, b) returns and stores an
\* account with balance b and otherwise the fields the account had, and
\* leaves every other account, the four other maps and the five counters as
\* they were.
C3_BalanceUpdateFrame ==
    [][ (lastOp'.op = "updateAccountBalance" /\ ~lastOp'.threw) =>
            LET id  == lastOp'.arg.id
                old == getAccount(storage, id)
                new == lastOp'.result
            IN  /\ old # Undefined
                /\ new.balance = lastOp'.arg.balance
                /\ getAccount(storage', id) = new
                /\ SameButBalance(new, old)
                /\ new.id = id
                /\ Len(storage'.accounts) = Len(storage.accounts)
                /\ \A i \in 1..Len(storage.accounts) :
                      storage.accounts[i].key # id =>
                          storage'.accounts[i] = storage.accounts[i]
                /\ \A kind \in Kinds \ {"accounts"} : storage'[kind] = storage[kind]
                /\ \A kind \in Kinds : CounterOf(storage', kind) = CounterOf(storage, kind)
      ]_vars

\* the balance of account 1 was overwritten while account 2 kept its own
C3_Witness ==
    /\ lastOp.op = "updateAccountBalance"
    /\ ~lastOp.threw
    /\ lastOp.arg = [id |-> 1, balance |-> 10000]
    /\ Len(storage.accounts) = 2
    /\ getAccount(storage, 1).balance = 10000
    /\ getAccount(storage, 1).name = "Checking Account"
    /\ getAccount(storage, 2).balance = 0

\* C4: updateAccountBalance on an id with no stored account rejects, creates
\* no account and leaves the store as it was; an id with a stored account
\* does not reject; and no other repository call rejects.
C4_NotFound ==
    [][ /\ lastOp'.threw =>
              /\ lastOp'.op = "updateAccountBalance"
              /\ getAccount(storage, lastOp'.arg.id) = Undefined
        /\ (lastOp'.op = "updateAccountBalance"
               /\ getAccount(storage, lastOp'.arg.id) = Undefined) =>
              /\ lastOp'.threw
              /\ storage' = storage
              /\ getAccount(storage', lastOp'.arg.id) = Undefined
      ]_vars

\* the update of account 3 was rejected while accounts 1 and 2 exist
C4_Witness ==
    /\ lastOp.op = "updateAccountBalance"
    /\ lastOp.threw
    /\ lastOp.arg.id = 3
    /\ Len(storage.accounts) = 2

----------------------------------------------------------------------------
(* Properties of the transaction queries and of budget progress *)

UserIds == {1, 2, 3}

RangeDates == { startOfMonth(CurrentMonth), endOfMonth(CurrentMonth) }

Limits == {0, 1, 2, 5}

Months == {CurrentMonth - 1, CurrentMonth, CurrentMonth + 1}

Elements(arr) == { arr[i] : i \in 1..Len(arr) }

\* newest first, and among equal dates the lower id first
NewestFirst(arr) ==
    \A i \in 1..(Len(arr) - 1) :
        \/ arr[i].date > arr[i + 1].date
        \/ arr[i].date = arr[i + 1].date /\ arr[i].id < arr[i + 1].id

RECURSIVE SumAmounts(_)
SumAmounts(S) ==
    IF S = {} THEN 0
    ELSE LET t == CHOOSE x \in S : TRUE
         IN  t.amount + SumAmounts(S \ {t})

\* C7: getTransactionsByDateRange(userId, start, end) holds exactly the
\* stored transactions of userId dated from start to end, both bounds
\* included, each once.
C7_DateRangeInclusive ==
    \A u \in UserIds, s \in RangeDates, e \in RangeDates :
        LET r      == getTransactionsByDateRange(storage, u, s, e)
            wanted == { t \in StoredValues(storage, "transactions") :
                          t.userId = u /\ s <= t.date /\ t.date <= e }
        IN  /\ Elements(r) = wanted
            /\ Len(r) = Cardinality(wanted)

\* user 1 has a transaction dated exactly at each bound of the month and one
\* a tick after it, next to a transaction of user 2
C7_Witness ==
    LET all == StoredValues(storage, "transactions")
        r   == getTransactionsByDateRange(storage, 1, startOfMonth(CurrentMonth),
                                          endOfMonth(CurrentMonth))
    IN  /\ Len(r) = 2
        /\ r[1].date = endOfMonth(CurrentMonth)
        /\ r[2].date = startOfMonth(CurrentMonth)
        /\ \E t \in all : t.userId = 1 /\ t.date = endOfMonth(CurrentMonth) + 1
        /\ \E t \in all : t.userId = 2

\* C8: getTransactionsByUserId(userId) holds exactly the stored
\* transactions of userId, newest first, equal dates in ascending id; the
\* results of getTransactionsByDateRange and getRecentTransactions are
\* ordered the same way.
C8_NewestFirst ==
    \A u \in UserIds :
        LET r == getTransactionsByUserId(storage, u)
        IN  /\ Elements(r) = { t \in StoredValues(storage, "transactions") : t.userId = u }
            /\ Len(r) = Cardinality(Elements(r))
            /\ NewestFirst(r)
            /\ \A n \in Limits : NewestFirst(getRecentTransactions(storage, u, n))
            /\ \A s \in RangeDates, e \in RangeDates :
                  NewestFirst(getTransactionsByDateRange(storage, u, s, e))

\* user 1's listing was reordered by the sort and holds two transactions of
\* one date
C8_Witness ==
    LET r == getTransactionsByUserId(storage, 1)
    IN  /\ Len(r) = 3
        /\ r[1].id > r[2].id
        /\ r[2].date = r[3].date
        /\ r[1].date > r[2].date

Min(a, b) == IF a < b THEN a ELSE b

\* C9: getRecentTransactions(userId, limit) is the first min(limit, n)
\* elements of getTransactionsByUserId(userId), n being its length.
C9_RecentIsPrefix ==
    \A u \in UserIds, limit \in Limits :
        LET all == getTransactionsByUserId(storage, u)
        IN  getRecentTransactions(storage, u, limit) = SubSeq(all, 1, Min(limit, Len(all)))

\* limit 2 cut user 1's three transactions, the newest of them created last
C9_Witness ==
    LET all == getTransactionsByUserId(storage, 1)
        r   == getRecentTransactions(storage, 1, 2)
    IN  /\ Len(all) = 3
        /\ Len(r) = 2
        /\ r[1].id = 3
        /\ r[1].date > r[2].date

\* C10: budget progress for (userId, month) maps exactly the ids of the
\* user's budgets, each to the sum of the amounts of the user's expense
\* transactions of the budget's category dated within the month (0 when
\* there is none).
C10_BudgetProgress ==
    \A u \in UserIds, m \in Months :
        LET p   == budgetProgress(storage, u, m)
            own == { b \in StoredValues(storage, "budgets") : b.userId = u }
        IN  /\ DOMAIN p = { b.id : b \in own }
            /\ \A b \in own :
                  p[b.id] = SumAmounts({ t \in StoredValues(storage, "transactions") :
                                          /\ t.userId = u
                                          /\ t.type = "expense"
                                          /\ t.categoryId = b.categoryId
                                          /\ startOfMonth(m) <= t.date
                                          /\ t.date <= endOfMonth(m) })

\* the scenario of the specification: one budget, two expenses of its
\* category at the two ends of the month, 50 + 30 = 80, and an income
\* transaction of the same category that is not counted
C10_Witness ==
    /\ budgetProgress(storage, 1, CurrentMonth) = (1 :> 8000)
    /\ \E t \in StoredValues(storage, "transactions") :
          t.userId = 1 /\ t.type = "income" /\ t.categoryId = 1

----------------------------------------------------------------------------
(* Properties of the application *)

\* no handler is in flight
Quiescent == phase = "serving" /\ \A c \in Clients : pc[c] = "idle"

\* +amount for income, -amount for expense, summed over a set of transactions
RECURSIVE NetAmount(_)
NetAmount(S) ==
    IF S = {} THEN 0
    ELSE LET t == CHOOSE x \in S : TRUE
         IN  (IF t.type = "income" THEN t.amount ELSE 0 - t.amount) + NetAmount(S \ {t})

\* C5: once the seed has run and whenever no request is in flight, the
\* balance of every stored account is the balance it was created with plus
\* the amounts of the stored income transactions on it minus the amounts of
\* the stored expense transactions on it.
C5_BalanceConsistency ==
    Quiescent =>
        \A account \in StoredValues(storage, "accounts") :
            account.balance =
                created[account.id]
                    + NetAmount({ t \in StoredValues(storage, "transactions") :
                                    t.accountId = account.id })

\* C6: no two stored users have usernames equal ignoring case, and no two
\* have emails equal ignoring case.
C6_UniqueUsers ==
    \A i \in 1..Len(storage.users), j \in 1..Len(storage.users) :
        i # j =>
            /\ toLowerCase(storage.users[i].value.username)
                    # toLowerCase(storage.users[j].value.username)
            /\ toLowerCase(storage.users[i].value.email)
                    # toLowerCase(storage.users[j].value.email)

----------------------------------------------------------------------------
(* Properties of the monthly summary *)

\* the stored transactions of user u of the given type dated within month m
InMonth(u, m, type) ==
    { t \in StoredValues(storage, "transactions") :
        /\ t.userId = u
        /\ t.type = type
        /\ startOfMonth(m) <= t.date
        /\ t.date <= endOfMonth(m) }

\* change is the finite number (current - prev) / prev * 100 when prev is
\* not 0, and the number 0 when it is
IsPercentChange(change, current, prev) ==
    /\ "num" \in DOMAIN change
    /\ IF prev = 0
       THEN change = Zero
       ELSE /\ change.den > 0
            /\ change.num * prev = (current - prev) * 100 * change.den

\* C11: in the summary of every user, income and expenses are the sums of
\* the month's income and expense transactions, savings is income minus
\* expenses for the current and for the previous month, and each of the
\* three change figures is (current - previous) / previous * 100 when the
\* previous value is not 0 and exactly 0 when it is: never Infinity or NaN.
C11_SummaryChanges ==
    \A u \in UserIds :
        LET s    == summary(storage, u)
            prev == CurrentMonth - 1
        IN  /\ s.monthlyIncome = SumAmounts(InMonth(u, CurrentMonth, "income"))
            /\ s.monthlyExpenses = SumAmounts(InMonth(u, CurrentMonth, "expense"))
            /\ s.prevIncome = SumAmounts(InMonth(u, prev, "income"))
            /\ s.prevExpenses = SumAmounts(InMonth(u, prev, "expense"))
            /\ s.monthlySavings = s.monthlyIncome - s.monthlyExpenses
            /\ s.prevSavings = s.prevIncome - s.prevExpenses
            /\ IsPercentChange(s.incomeChange, s.monthlyIncome, s.prevIncome)
            /\ IsPercentChange(s.expensesChange, s.monthlyExpenses, s.prevExpenses)
            /\ IsPercentChange(s.savingsChange, s.monthlySavings, s.prevSavings)

\* user 1 had no income and 30 of expenses in the previous month, and has 50
\* of income and 50 of expenses in this one: the income change is 0, the
\* expenses change 200/3 and the savings change -100
C11_Witness ==
    LET s == summary(storage, 1)
    IN  /\ s.prevIncome = 0
        /\ s.monthlyIncome = 5000
        /\ s.incomeChange = Zero
        /\ s.prevExpenses = 3000
        /\ s.monthlyExpenses = 5000
        /\ s.expensesChange = [num |-> 200, den |-> 3]
        /\ s.prevSavings = 0 - 3000
        /\ s.savingsChange = [num |-> 0 - 100, den |-> 1]

----------------------------------------------------------------------------
(* Properties of the user lookups and of the seed *)

\* a and b are the same character, or the two cases of one letter
SameLetter(a, b) ==
    \/ a = b
    \/ \E i \in 1..Len(Upper) : {a, b} = {Upper[i], Lower[i]}

EqualIgnoringCase(s, t) ==
    /\ Len(s) = Len(t)
    /\ \A i \in 1..Len(s) : SameLetter(s[i], t[i])

\* C12: when a user whose username is "demo" ignoring case is stored,
\* seedInitialData leaves the whole store as it is: no record created, no
\* balance changed, no id counter advanced; and from any store, running the
\* seed a second time leaves the store the first run produced.
C12_SeedIdempotent ==
    LET once == seedInitialData(storage)
    IN  /\ (\E user \in StoredValues(storage, "users") :
                EqualIgnoringCase(user.username, demo))
              => once.store = storage
        /\ seedInitialData(once.store).store = once.store

\* the only stored user is "Demo", beside an account, and the seed changes
\* nothing
C12_Witness ==
    /\ Len(storage.users) = 1
    /\ storage.users[1].value.username = <<"D","e","m","o">>
    /\ Len(storage.accounts) > 0
    /\ seedInitialData(storage).store = storage

\* the usernames and emails looked up
UsernameQueries ==
    { demo, <<"D","e","m","o">>, <<"D","E","M","O">>, <<"a","m","y">>,
      <<"b","o","b">>, <<"d","e","m">> }

EmailQueries ==
    { demoEmail,
      <<"D","E","M","O","@","e","x","a","m","p","l","e",".","c","o","m">>,
      <<"a","m","y","@","x",".","i","o">>, <<"b","o","b","@","x",".","i","o">> }

\* the user stored first among those whose field equals q ignoring case,
\* Undefined when there is none
FirstMatch(field, q) ==
    LET matches == { i \in 1..Len(storage.users) :
                       EqualIgnoringCase(storage.users[i].value[field], q) }
    IN  IF matches = {} THEN Undefined
        ELSE storage.users[CHOOSE i \in matches : \A j \in matches : i <= j].value

\* C13: getUserByUsername(q) is the first stored user, in insertion order,
\* whose username equals q ignoring letter case, and the absent value when
\* no stored username does; "Demo" and "demo" find the same user;
\* getUserByEmail is the same on email.
C13_LookupIgnoresCase ==
    /\ \A q \in UsernameQueries :
           getUserByUsername(storage, q) = FirstMatch("username", q)
    /\ \A q \in EmailQueries :
           getUserByEmail(storage, q) = FirstMatch("email", q)
    /\ getUserByUsername(storage, <<"D","e","m","o">>)
           = getUserByUsername(storage, demo)

\* "Demo" was stored before "demo": both spellings find user 1, by name and
\* by email, and "bob" finds nobody
C13_Witness ==
    /\ Len(storage.users) >= 2
    /\ storage.users[1].value.username = <<"D","e","m","o">>
    /\ storage.users[2].value.username = demo
    /\ getUserByUsername(storage, demo).id = 1
    /\ getUserByUsername(storage, <<"D","E","M","O">>).id = 1
    /\ getUserByEmail(storage, demoEmail).id = 1
    /\ getUserByUsername(storage, <<"b","o","b">>) = Undefined

----------------------------------------------------------------------------
(* Properties of the request layer *)

OwnedKinds == {"accounts", "categories", "transactions", "budgets"}

\* the users in whose session some client is
SessionUsers == { session[c] : c \in Clients } \ {NoSession}

\* C14: a request made in the session of user A creates only records whose
\* userId is A and changes no stored record of another user: every owned
\* record a step adds belongs to a user with a session, the transaction a
\* client's POST /api/transactions stores belongs to the client's session
\* user, and the account whose balance the request then changes belongs to
\* that user too.
C14_UserIsolation ==
    [][ /\ \A kind \in OwnedKinds :
              \A i \in (Len(storage[kind]) + 1)..Len(storage'[kind]) :
                  phase = "serving" => storage'[kind][i].value.userId \in SessionUsers
        /\ \A c \in Clients :
              /\ (pc[c] = "idle" /\ pc'[c] = "transaction.created")
                    => storage'.transactions[Len(storage'.transactions)].value.userId
                          = session[c]
              /\ (pc[c] = "transaction.account" /\ pc'[c] = "idle")
                    => \A i \in 1..Len(storage.accounts) :
                          storage'.accounts[i] # storage.accounts[i]
                             => storage.accounts[i].value.userId = session[c]
      ]_vars

\* the store the seed leaves at start-up
SeededStore == seedInitialData(MemStorage).store

\* the balance of an account before any POST /api/transactions: the one the
\* seed left, or the one the account was posted with
BalanceBefore(id) ==
    IF MapGet(SeededStore.accounts, id) # Undefined
    THEN MapGet(SeededStore.accounts, id).balance
    ELSE created[id]

\* the transactions stored by requests, not by the seed
PostedTransactions ==
    { t \in StoredValues(storage, "transactions") :
        t.id > Len(SeededStore.transactions) }

\* C15: no balance update is lost: whenever no request is in flight, however
\* the storage calls of the transaction-creation requests interleaved, the
\* balance of every account is its balance before the requests plus the
\* amounts of the income transactions and minus the amounts of the expense
\* transactions the requests stored on it.
C15_NoLostUpdate ==
    Quiescent =>
        \A account \in StoredValues(storage, "accounts") :
            account.balance =
                BalanceBefore(account.id)
                    + NetAmount({ t \in PostedTransactions :
                                    t.accountId = account.id })

====
